---- MODULE Spec2Model ----
(***************************************************************************)
(* ENS160 gas-sensor driver: the retrying I2C transaction layer            *)
(* (RetryingI2C.write / RetryingI2C.read) and the driver operations built  *)
(* on it (Driver.reset, Driver.init, Driver.get_fw_version, ...).          *)
(*                                                                         *)
(* The program is single threaded.  One step of the model is one transport *)
(* attempt, one sleep, or the driver code between two transaction-layer    *)
(* calls.  The SMBus transport and the sensor behind it are the            *)
(* environment: an attempt either delivers or raises OSError, and the      *)
(* sensor's registers change on their own.                                 *)
(***************************************************************************)
EXTENDS Integers, Sequences, FiniteSets, TLC

(* ---------------------------------------------------------------- bounds *)
\* Largest retry budget handed to RetryingI2C.__init__ (any R in 0..MaxRetries).
MaxRetries == 2
\* Transaction-layer calls of one driver operation that are recorded in the
\* log; later calls still happen but are no longer recorded.
MaxLog == 29

(* ------------------------------------------------------------- constants *)
\* enumerations.Registers
PART_ID == 0
OP_MODE == 16
COMMAND == 18
TEMP_IN == 19
RH_IN == 21
DEVICE_STATUS == 32
DATA_AQI == 33
DATA_TVOC == 34
DATA_ECO2 == 36
GRP_READ4 == 76
\* enumerations.OpModes
DEEP_SLEEP == 0
IDLE == 1
STANDARD == 2
RESET == 240
\* enumerations.Commands
GET_FW_VER == 14
CLEAR_GPR_READ == 204
\* Driver.reset: i = 25
ResetPolls == 25

None == "None"

(* ------------------------------------------------------------- the sensor *)
\* Values the sensor's registers take in the model.
ModeVals == {DEEP_SLEEP, RESET}
StatusVals == {0, 1, 130}
GprVals == {<<5, 4, 6>>, <<0, 10, 255>>}
WordVals == {<<lo, hi>> : lo \in {0, 1, 96, 255}, hi \in {0, 1, 96, 255}}
AqiVals == {1, 13}
\* errno of the OSError an SMBus call raises (EIO, EREMOTEIO)
Errnos == {5, 121}

VARIABLES
  cfg_retries,  \* RetryingI2C.__retries
  cfg_retry_sleep, \* RetryingI2C.__retry_sleep, seconds as <<numerator, denominator>>
  dev_mode,     \* sensor: the operating-mode register
  dev_status,   \* sensor: the status register
  dev_gpr,      \* sensor: general-purpose read registers 4..6
  op,           \* the driver operation the caller is in, or None
  pc,           \* position in the driver operation
  i,            \* Driver.reset: the local i
  call,         \* the transaction-layer call in progress: <<kind, register, data or size>>
  tl,           \* position in RetryingI2C.write/read: idle, try, ret, raise
  retries,      \* RetryingI2C.write/read: the local retries
  tlret,        \* value the last RetryingI2C call returned, tagged with its Python type
  ret,          \* value the driver operation returned
  exc,          \* errno of the OSError that left the driver operation, or 0
  \* observations of the run (not program state)
  attempts,     \* transport attempts of the current transaction-layer call
  nfail,        \* transport failures of the current transaction-layer call
  sleeps,       \* retry sleeps of the current transaction-layer call
  last_err,     \* errno of the latest failed attempt of the current call, or 0
  wire,         \* what the transport delivered on the latest successful read
  log,          \* transaction-layer calls of the current driver operation, in order
  ncalls,       \* their number, counted up to MaxLog + 1
  drv_sleeps,   \* driver-level sleeps of the current operation, counted up to MaxLog
  failed,       \* some transport attempt failed during the current operation
  first_zero,   \* index of the first operating-mode read that delivered 0, or 0
  first_status, \* the first status byte delivered to the current operation, or -1
  last_status,  \* the latest status byte delivered to the current operation, or -1
  xfers,        \* SMBus calls of the current transaction-layer call, one per attempt
  arg,          \* the argument of the running compensation setter, or <<>>
  prev_mode,    \* what the get_operating_mode() call just before this one returned, or -1
  \* status.py on its own: one Status object and the byte it was built from
  sbyte,        \* the byte d handed to Status(d)
  sdec,         \* <<the fields of Status(d)>>, or <<>> before the call
  senc,         \* what to_status() returned, or -1 before the call
  sagain        \* <<the fields of Status(to_status())>>, or <<>> before the call

prog == <<op, pc, i, call, tl, retries, tlret, ret, exc>>
obs == <<attempts, nfail, sleeps, last_err, wire, log, ncalls, drv_sleeps,
         failed, first_zero, first_status, last_status, xfers>>
dev == <<dev_mode, dev_status, dev_gpr>>
input == <<arg, prev_mode>>
codec == <<sbyte, sdec, senc, sagain>>
cfg == <<cfg_retries, cfg_retry_sleep>>
vars == <<cfg, codec, dev, prog, obs, input>>

(* ---------------------------------------------------------------- helpers *)
\* Python values handed to RetryingI2C.write: an int or a list of ints.
PyInt(v) == <<"int", v>>
PyList(s) == <<"list", s>>
PyStr(s) == <<"str", s>>
PyBool(b) == <<"bool", b>>
PyStatus(self) == <<"Status", self>>
PyNone == <<"NoneType", <<>>>>
isinstance_int(data) == data[1] = "int"

Bit(d, k) == (d \div (2 ^ k)) % 2

\* The log of transaction-layer calls is complete while ncalls <= MaxLog.
LogComplete == ncalls = Len(log)
Count(kind, register) ==
  Cardinality({k \in 1..Len(log) : log[k][1] = kind /\ log[k][2] = register})
Logged(entry) ==
  /\ log' = IF Len(log) < MaxLog THEN Append(log, entry) ELSE log
  /\ ncalls' = IF ncalls <= MaxLog THEN ncalls + 1 ELSE ncalls

(* ------------------------------------------------------------ status.py *)
\* Python's a | b and a << n on non-negative ints; True and False count 1 and 0.
RECURSIVE BitOr(_, _)
BitOr(a, b) ==
  IF a = 0 THEN b
  ELSE IF b = 0 THEN a
  ELSE (IF a % 2 = 1 \/ b % 2 = 1 THEN 1 ELSE 0) + 2 * BitOr(a \div 2, b \div 2)
Shl(a, n) == a * (2 ^ n)
AsInt(b) == IF b = TRUE THEN 1 ELSE 0

\* Status.__init__ with the error flag taken from bit 5.
Status_error_bit5(d) ==
  LET flags == (d \div 4) % 4 IN
  [ flags |-> flags,
    warm_up |-> flags = 1,
    inital_startup |-> flags = 2,
    normal_operation |-> flags = 0,
    invalid_data |-> flags = 3,
    power_on |-> Bit(d, 7) = 1,
    error |-> Bit(d, 5) = 1,
    new_data |-> Bit(d, 1) = 1,
    new_gpr |-> Bit(d, 0) = 1 ]

\* Status.__init__ with warm_up compared to the wrong flag value.
Status_warm_up_2(d) ==
  LET flags == (d \div 4) % 4 IN
  [ flags |-> flags,
    warm_up |-> flags = 2,
    inital_startup |-> flags = 2,
    normal_operation |-> flags = 0,
    invalid_data |-> flags = 3,
    power_on |-> Bit(d, 7) = 1,
    error |-> Bit(d, 6) = 1,
    new_data |-> Bit(d, 1) = 1,
    new_gpr |-> Bit(d, 0) = 1 ]

Status(d) ==
  LET flags == (d \div 4) % 4 IN
  [ flags |-> flags,
    warm_up |-> flags = 1,
    inital_startup |-> flags = 2,
    normal_operation |-> flags = 0,
    invalid_data |-> flags = 3,
    power_on |-> Bit(d, 7) = 1,
    error |-> Bit(d, 6) = 1,
    new_data |-> Bit(d, 1) = 1,
    new_gpr |-> Bit(d, 0) = 1 ]

\* Status.to_status with the error flag shifted to bit 5.
to_status_error_5(self) ==
  BitOr(BitOr(BitOr(BitOr(AsInt(self.new_gpr), Shl(AsInt(self.new_data), 1)),
                    Shl(self.flags, 2)),
              Shl(AsInt(self.error), 5)),
        Shl(AsInt(self.power_on), 7))

\* Status.to_status:
\* new_gpr | new_data << 1 | flags << 2 | error << 6 | power_on << 7
to_status(self) ==
  BitOr(BitOr(BitOr(BitOr(AsInt(self.new_gpr), Shl(AsInt(self.new_data), 1)),
                    Shl(self.flags, 2)),
              Shl(AsInt(self.error), 6)),
        Shl(AsInt(self.power_on), 7))

\* Status(d) is built from the byte d.
StatusNew ==
  /\ Len(sdec) = 0
  /\ sdec' = <<Status(sbyte)>>
  /\ UNCHANGED <<cfg, input, dev, prog, obs, sbyte, senc, sagain>>

\* to_status() is called on the object.
StatusToStatus ==
  /\ Len(sdec) = 1 /\ senc = -1
  /\ senc' = to_status(sdec[1])
  /\ UNCHANGED <<cfg, input, dev, prog, obs, sbyte, sdec, sagain>>

\* A second object is built from the byte to_status() returned.
StatusAgain ==
  /\ senc /= -1 /\ Len(sagain) = 0
  /\ sagain' = <<Status(senc)>>
  /\ UNCHANGED <<cfg, input, dev, prog, obs, sbyte, sdec, senc>>

(* --------------------------------------------------------- retry_i2c.py *)
\* Off by one: gives up one failure early.
RetriesExhausted_early(r) == r <= 0
\* Off by one: allows one attempt too many.
RetriesExhausted_late(r) == r < -1
\* retry_i2c.py:35,49  if retries < 0: raise e
RetriesExhausted(r) == r < 0

\* retry_i2c.py:28-31  the SMBus primitive a write uses
WritePrimitive(data) ==
  IF isinstance_int(data) THEN "write_byte_data" ELSE "write_i2c_block_data"

\* retry_i2c.py:44-46  the SMBus primitive a read uses
ReadPrimitive(size) ==
  IF size = 1 THEN "read_byte_data" ELSE "read_i2c_block_data"

\* What the sensor delivers for a read of `size` bytes at `register`.
Delivered(register, size) ==
  IF register = OP_MODE /\ size = 1 THEN {dev_mode}
  ELSE IF register = DEVICE_STATUS /\ size = 1 THEN {dev_status}
  ELSE IF register = GRP_READ4 /\ size = 3 THEN {dev_gpr}
  ELSE IF size = 2 THEN WordVals
  ELSE AqiVals

\* Entry of RetryingI2C.write: retries = self.__retries, then the first attempt.
write(register, data) ==
  /\ call' = <<"write", register, data>>
  /\ retries' = cfg_retries
  /\ tl' = "try"
  /\ attempts' = 0 /\ nfail' = 0 /\ sleeps' = 0 /\ xfers' = <<>> /\ last_err' = 0

\* A read whose budget is what the call before it left over.
read_carry_over(register, size) ==
  /\ call' = <<"read", register, size>>
  /\ retries' = retries
  /\ tl' = "try"
  /\ attempts' = 0 /\ nfail' = 0 /\ sleeps' = 0 /\ xfers' = <<>> /\ last_err' = 0

\* Entry of RetryingI2C.read.
read(register, size) ==
  /\ call' = <<"read", register, size>>
  /\ retries' = cfg_retries
  /\ tl' = "try"
  /\ attempts' = 0 /\ nfail' = 0 /\ sleeps' = 0 /\ xfers' = <<>> /\ last_err' = 0

\* The bus address the handle was constructed with, self.__address.
address == 83

\* A loop that falls back to the block primitive once an attempt has failed.
Transfer_retry_block ==
  IF call[1] = "write"
  THEN <<IF attempts = 0 THEN WritePrimitive(call[3]) ELSE "write_i2c_block_data",
         call[2], call[3], address>>
  ELSE <<IF attempts = 0 THEN ReadPrimitive(call[3]) ELSE "read_i2c_block_data",
         call[2], call[3], address>>

\* The SMBus call one turn of the loop makes (retry_i2c.py:28-31, 44-46):
\* primitive, register, data or length, and the bus address.
Transfer ==
  IF call[1] = "write" THEN <<WritePrimitive(call[3]), call[2], call[3], address>>
  ELSE <<ReadPrimitive(call[3]), call[2], call[3], address>>

\* The except branch with `return` in the place of `raise e`: the error is
\* swallowed and the call returns to the driver.
OnOSError_swallow(e) ==
  /\ xfers' = Append(xfers, Transfer)
  /\ retries' = retries - 1
  /\ attempts' = attempts + 1
  /\ nfail' = nfail + 1
  /\ last_err' = e
  /\ failed' = TRUE
  /\ IF retries - 1 < 0
       THEN /\ tl' = "ret"
            /\ sleeps' = sleeps
       ELSE /\ tl' = "try"
            /\ sleeps' = sleeps + 1
  /\ UNCHANGED <<cfg, codec, input, dev, op, pc, exc, i, call, tlret, ret, wire, log,
                 ncalls, drv_sleeps, first_zero, first_status, last_status>>

\* The except branch of both loops: retries -= 1; raise e when exhausted, the
\* exception leaving the driver operation as well (the driver catches nothing);
\* otherwise sleep(self.__retry_sleep) and go round the loop.
OnOSError(e) ==
  /\ xfers' = Append(xfers, Transfer)
  /\ retries' = retries - 1
  /\ attempts' = attempts + 1
  /\ nfail' = nfail + 1
  /\ last_err' = e
  /\ failed' = TRUE
  /\ IF RetriesExhausted(retries - 1)
       THEN /\ tl' = "raise"
            /\ pc' = "raised"
            /\ exc' = e
            /\ sleeps' = sleeps
       ELSE /\ tl' = "try"
            /\ sleeps' = sleeps + 1
            /\ UNCHANGED <<pc, exc>>
  /\ UNCHANGED <<cfg, codec, input, dev, op, i, call, tlret, ret, wire, log, ncalls,
                 drv_sleeps, first_zero, first_status, last_status>>

\* RetryingI2C.write, one turn of the loop in which the transport delivers.
I2CWriteOk ==
  /\ tl = "try" /\ call[1] = "write"
  /\ xfers' = Append(xfers, Transfer)
  /\ tl' = "ret"
  /\ tlret' = PyNone
  /\ attempts' = attempts + 1
  /\ UNCHANGED <<cfg, codec, input, dev, op, pc, i, call, retries, ret, exc, nfail,
                 sleeps, last_err, wire, log, ncalls, drv_sleeps, failed,
                 first_zero, first_status, last_status>>

\* RetryingI2C.write, one turn of the loop in which the transport raises OSError.
I2CWriteFail ==
  /\ tl = "try" /\ call[1] = "write"
  /\ \E e \in Errnos : OnOSError(e)

\* What read returns for the delivered v: the int of read_byte_data or the
\* list of read_i2c_block_data.
Received(v) == IF call[3] = 1 THEN PyInt(v) ELSE PyList(v)

\* RetryingI2C.read, one turn of the loop in which the transport delivers v.
I2CReadOk ==
  /\ tl = "try" /\ call[1] = "read"
  /\ \E v \in Delivered(call[2], call[3]) :
       /\ tl' = "ret"
       /\ tlret' = Received(v)
       /\ xfers' = Append(xfers, Transfer)
       /\ wire' = Received(v)
       /\ attempts' = attempts + 1
       /\ first_zero' = IF call[2] = OP_MODE /\ first_zero = 0 /\ v = 0
                          THEN Count("read", OP_MODE) ELSE first_zero
       /\ first_status' = IF call[2] = DEVICE_STATUS /\ first_status = -1
                            THEN v ELSE first_status
       /\ last_status' = IF call[2] = DEVICE_STATUS THEN v ELSE last_status
  /\ UNCHANGED <<cfg, codec, input, dev, op, pc, i, call, retries, ret, exc, nfail,
                 sleeps, last_err, log, ncalls, drv_sleeps, failed>>

\* RetryingI2C.read, one turn of the loop in which the transport raises OSError.
I2CReadFail ==
  /\ tl = "try" /\ call[1] = "read"
  /\ \E e \in Errnos : OnOSError(e)

(* -------------------------------------------------------------- driver.py *)
\* A caller may start an operation when none is running.
Callable == pc \in {"idle", "done", "raised"}

\* Entering a driver operation called with argument `a`: the bookkeeping of
\* the run starts afresh.
EnterWith(name, where, entry, a) ==
  /\ Callable
  /\ arg' = a
  /\ prev_mode' = IF name = "get_operating_mode" /\ op = "get_operating_mode" /\ pc = "done"
                    THEN ret[2] ELSE -1
  /\ op' = name
  /\ pc' = where
  /\ ret' = PyNone
  /\ exc' = 0
  /\ log' = <<entry>>
  /\ ncalls' = 1
  /\ drv_sleeps' = 0
  /\ failed' = FALSE
  /\ first_zero' = 0
  /\ first_status' = -1
  /\ last_status' = -1
  /\ i' = 0
  /\ tlret' = PyNone
  /\ wire' = PyNone
  /\ UNCHANGED <<cfg, codec, dev>>

\* Entering a driver operation that takes no argument.
Enter(name, where, entry) == EnterWith(name, where, entry, <<>>)

\* Leaving a driver operation with a value.
Leave(value) ==
  /\ pc' = "done"
  /\ ret' = value
  /\ tl' = "idle"
  /\ UNCHANGED <<cfg, codec, input, dev, op, call, retries, tlret, exc, obs>>

\* A transaction-layer call has returned to the driver at position `where`.
Returned(where) == pc = where /\ tl = "ret"

\* Driver.set_operating_mode
set_operating_mode ==
  \/ \E mode \in {DEEP_SLEEP, IDLE, STANDARD, RESET} :
       /\ Enter("set_operating_mode", "set_operating_mode",
                <<"write", OP_MODE, PyInt(mode)>>)
       /\ write(OP_MODE, PyInt(mode))
  \/ /\ Returned("set_operating_mode")
     /\ Leave(PyNone)
     /\ UNCHANGED i

\* A driver that remembers the mode it last reported and reports it again.
get_operating_mode_cached ==
  \/ /\ Enter("get_operating_mode", "get_operating_mode", <<"read", OP_MODE, 1>>)
     /\ read(OP_MODE, 1)
  \/ /\ Returned("get_operating_mode")
     /\ Leave(IF prev_mode = -1 THEN tlret ELSE PyInt(prev_mode))
     /\ UNCHANGED i

\* Driver.get_operating_mode
get_operating_mode ==
  \/ /\ Enter("get_operating_mode", "get_operating_mode", <<"read", OP_MODE, 1>>)
     /\ read(OP_MODE, 1)
  \/ /\ Returned("get_operating_mode")
     /\ Leave(tlret)
     /\ UNCHANGED i

\* Driver.get_part_id, Driver.get_tvoc, Driver.get_eco2: byte0 + (byte1 << 8)
\* The two bytes combined high byte first.
LittleEndian_swapped(byte_values) == byte_values[2] + Shl(byte_values[1], 8)
LittleEndian(byte_values) == byte_values[1] + Shl(byte_values[2], 8)

get_part_id ==
  \/ /\ Enter("get_part_id", "get_part_id", <<"read", PART_ID, 2>>)
     /\ read(PART_ID, 2)
  \/ /\ Returned("get_part_id")
     /\ Leave(PyInt(LittleEndian(tlret[2])))
     /\ UNCHANGED i

get_tvoc ==
  \/ /\ Enter("get_tvoc", "get_tvoc", <<"read", DATA_TVOC, 2>>)
     /\ read(DATA_TVOC, 2)
  \/ /\ Returned("get_tvoc")
     /\ Leave(PyInt(LittleEndian(tlret[2])))
     /\ UNCHANGED i

get_eco2 ==
  \/ /\ Enter("get_eco2", "get_eco2", <<"read", DATA_ECO2, 2>>)
     /\ read(DATA_ECO2, 2)
  \/ /\ Returned("get_eco2")
     /\ Leave(PyInt(LittleEndian(tlret[2])))
     /\ UNCHANGED i

\* Driver.get_aqi: read(DATA_AQI, 1) & 0x07
get_aqi ==
  \/ /\ Enter("get_aqi", "get_aqi", <<"read", DATA_AQI, 1>>)
     /\ read(DATA_AQI, 1)
  \/ /\ Returned("get_aqi")
     /\ Leave(PyInt(tlret[2] % 8))
     /\ UNCHANGED i

\* Driver.get_device_status
get_device_status ==
  \/ /\ Enter("get_device_status", "get_device_status", <<"read", DEVICE_STATUS, 1>>)
     /\ read(DEVICE_STATUS, 1)
  \/ /\ Returned("get_device_status")
     /\ Leave(PyStatus(Status(tlret[2])))
     /\ UNCHANGED i

\* Starting the transaction-layer call `c` = <<kind, register, data or size>>.
Issue(c) == IF c[1] = "write" THEN write(c[2], c[3]) ELSE read(c[2], c[3])

\* The driver goes on from a returned call to its next call `c`, at `where`.
Continue(where, c) ==
  /\ pc' = where
  /\ Logged(c)
  /\ Issue(c)
  /\ UNCHANGED <<cfg, codec, input, dev, op, tlret, ret, exc, wire, failed,
                 first_zero, first_status, last_status>>

\* The commented-out line of clear_gp_read_flag in the place of the read.
clear_gp_read_flag_call_cmd == <<"write", COMMAND, PyInt(CLEAR_GPR_READ)>>

\* Driver.clear_gp_read_flag: the one transaction-layer call it makes.  The
\* write of Commands.CLEAR_GPR_READ to Registers.COMMAND is commented out.
clear_gp_read_flag_call == <<"read", GRP_READ4, 3>>

clear_gp_read_flag ==
  \/ /\ Enter("clear_gp_read_flag", "clear_gp_read_flag", clear_gp_read_flag_call)
     /\ Issue(clear_gp_read_flag_call)
  \/ /\ Returned("clear_gp_read_flag")
     /\ Leave(PyNone)
     /\ UNCHANGED i

\* The loop test on the wrong status bit.
fw_ready_new_data(status) == status.new_data
\* The version with major and minor swapped.
fw_format_swapped(byte_data) ==
  ToString(byte_data[2]) \o "." \o ToString(byte_data[1]) \o "." \o ToString(byte_data[3])

\* Driver.get_fw_version: the command it writes, its loop test, its result.
fw_command == GET_FW_VER
fw_ready(status) == status.new_gpr
fw_format(byte_data) ==
  ToString(byte_data[1]) \o "." \o ToString(byte_data[2]) \o "." \o ToString(byte_data[3])

\* One more driver-level sleep, counted up to MaxLog.
Slept == drv_sleeps' = IF drv_sleeps < MaxLog THEN drv_sleeps + 1 ELSE drv_sleeps

get_fw_version ==
  \/ /\ Enter("get_fw_version", "fw_write", <<"write", COMMAND, PyInt(fw_command)>>)
     /\ write(COMMAND, PyInt(fw_command))
  \/ /\ Returned("fw_write")              \* while True: status = self.get_device_status()
     /\ Continue("fw_status", <<"read", DEVICE_STATUS, 1>>)
     /\ UNCHANGED <<i, drv_sleeps>>
  \/ /\ Returned("fw_status")             \* if status.new_gpr: break; then the read
     /\ fw_ready(Status(tlret[2]))
     /\ Continue("fw_read", <<"read", GRP_READ4, 3>>)
     /\ UNCHANGED <<i, drv_sleeps>>
  \/ /\ Returned("fw_status")             \* sleep(0.001) and round the loop
     /\ ~fw_ready(Status(tlret[2]))
     /\ Slept
     /\ Continue("fw_status", <<"read", DEVICE_STATUS, 1>>)
     /\ UNCHANGED i
  \/ /\ Returned("fw_read")
     /\ Leave(PyStr(fw_format(tlret[2])))
     /\ UNCHANGED i

\* Driver.reset: what the loop does to i on each turn (nothing: the source
\* never assigns i inside the loop), and its test for a settled sensor.
reset_next_i(n) == n
\* The test against IDLE in the place of DEEP_SLEEP.
reset_settled_idle(m) == m = IDLE
reset_settled(m) == m = 0

\* reset() returns `value`: to the caller, or into init(), which ignores the
\* value and goes on to set_operating_mode(OpModes.IDLE).
reset_return(value) ==
  IF op = "init"
    THEN /\ Continue("init_write", <<"write", OP_MODE, PyInt(IDLE)>>)
         /\ UNCHANGED <<i, drv_sleeps>>
    ELSE /\ Leave(value)
         /\ UNCHANGED i

\* The part of Driver.reset that Driver.init runs as well.
reset_body ==
  \/ /\ Returned("reset_write")           \* i = 25
     /\ i' = ResetPolls
     /\ pc' = "reset_while"
     /\ tl' = "idle"
     /\ UNCHANGED <<cfg, codec, input, dev, op, call, retries, tlret, ret, exc, obs>>
  \/ /\ pc = "reset_while"                \* while i > 0: m = self.get_operating_mode()
     /\ IF i > 0
          THEN /\ Continue("reset_poll", <<"read", OP_MODE, 1>>)
               /\ UNCHANGED <<i, drv_sleeps>>
          ELSE reset_return(PyBool(FALSE))      \* the loop ends: return False
  \/ /\ Returned("reset_poll")            \* if m == 0: self.clear_gp_read_flag()
     /\ reset_settled(tlret[2])
     /\ Continue("reset_clear", clear_gp_read_flag_call)
     /\ UNCHANGED <<i, drv_sleeps>>
  \/ /\ Returned("reset_poll")            \* sleep(0.01) and round the loop
     /\ ~reset_settled(tlret[2])
     /\ Slept
     /\ i' = reset_next_i(i)
     /\ pc' = "reset_while"
     /\ tl' = "idle"
     /\ UNCHANGED <<cfg, codec, input, dev, op, call, retries, tlret, ret, exc,
                    attempts, nfail, sleeps, last_err, wire, log, ncalls,
                    failed, first_zero, first_status, last_status, xfers>>
  \/ /\ Returned("reset_clear")           \* return True
     /\ reset_return(PyBool(TRUE))

reset ==
  \/ /\ Enter("reset", "reset_write", <<"write", OP_MODE, PyInt(RESET)>>)
     /\ write(OP_MODE, PyInt(RESET))
  \/ /\ op = "reset"
     /\ reset_body

\* Driver.init
init ==
  \/ /\ Enter("init", "reset_write", <<"write", OP_MODE, PyInt(RESET)>>)
     /\ write(OP_MODE, PyInt(RESET))
  \/ /\ op = "init"
     /\ reset_body
  \/ /\ Returned("init_write")
     /\ Leave(PyNone)
     /\ UNCHANGED i

\* Python's round() of the rational num/den (den > 0): to nearest, ties to even.
round(num, den) ==
  LET q == num \div den
      r == num % den
  IN IF 2 * r < den THEN q
     ELSE IF 2 * r > den THEN q + 1
     ELSE IF q % 2 = 0 THEN q ELSE q + 1

\* The high byte taken without the 0xFF00 mask.
params_of_unmasked(param) == <<param % 256, param \div 256>>

\* params = [param & 0x00FF, (param & 0xFF00) >> 8]
params_of(param) == <<param % 256, (param % 65536) \div 256>>

\* Arguments of the compensation setters in the model, as rationals <<num, den>>.
KelvinInputs == {<<29815, 100>>, <<1024, 1>>}
CelciusInputs == {<<25, 1>>, <<-300, 1>>}
FahrenheitInputs == {<<145, 2>>}
HumidityInputs == {<<55, 1>>, <<128, 1>>, <<-1, 2>>, <<3, 1024>>}

\* t_in_celcius + 273.15 and (t_in_fahrenheit - 32.0) * 5.0 / 9.0
\* The offset truncated to 273 kelvin.
celcius_to_kelvin_273(t) == <<t[1] + 273 * t[2], t[2]>>

celcius_to_kelvin(t) == <<t[1] * 100 + 27315 * t[2], t[2] * 100>>
fahrenheit_to_celcius(t) == <<(t[1] - 32 * t[2]) * 5, t[2] * 9>>

\* Driver.set_temp_compensation_kelvin: the call it makes for t_in_kelvin.
temp_call(t_in_kelvin) ==
  <<"write", TEMP_IN, PyList(params_of(round(t_in_kelvin[1] * 64, t_in_kelvin[2])))>>

\* The humidity scaled like the temperature, by 64.
rh_call_scale_64(relative_humidity) ==
  <<"write", RH_IN, PyList(params_of(round(relative_humidity[1] * 64, relative_humidity[2])))>>

\* Driver.set_rh_compensation: the call it makes for relative_humidity.
rh_call(relative_humidity) ==
  <<"write", RH_IN, PyList(params_of(round(relative_humidity[1] * 512, relative_humidity[2])))>>

set_temp_compensation_kelvin ==
  \/ \E t \in KelvinInputs :
       /\ EnterWith("set_temp_compensation_kelvin", "set_temp", temp_call(t), t)
       /\ Issue(temp_call(t))
  \/ /\ Returned("set_temp")
     /\ Leave(PyNone)
     /\ UNCHANGED i

\* Driver.set_temp_compensation_celcius delegates to the Kelvin setter.
set_temp_compensation_celcius ==
  \E t \in CelciusInputs :
    /\ EnterWith("set_temp_compensation_celcius", "set_temp",
                 temp_call(celcius_to_kelvin(t)), t)
    /\ Issue(temp_call(celcius_to_kelvin(t)))

\* Driver.set_temp_compensation_fahrenheit delegates to the Celsius setter.
set_temp_compensation_fahrenheit ==
  \E t \in FahrenheitInputs :
    /\ EnterWith("set_temp_compensation_fahrenheit", "set_temp",
                 temp_call(celcius_to_kelvin(fahrenheit_to_celcius(t))), t)
    /\ Issue(temp_call(celcius_to_kelvin(fahrenheit_to_celcius(t))))

set_rh_compensation ==
  \/ \E h \in HumidityInputs :
       /\ EnterWith("set_rh_compensation", "set_rh", rh_call(h), h)
       /\ Issue(rh_call(h))
  \/ /\ Returned("set_rh")
     /\ Leave(PyNone)
     /\ UNCHANGED i

(* ------------------------------------------------------------ environment *)
\* The sensor changes a register on its own (settling after a reset, a
\* finished command, a power cycle).
DeviceChange ==
  \/ /\ \E m \in ModeVals \ {dev_mode} : dev_mode' = m
     /\ UNCHANGED <<cfg, codec, input, dev_status, dev_gpr, prog, obs>>
  \/ /\ \E d \in StatusVals \ {dev_status} : dev_status' = d
     /\ UNCHANGED <<cfg, codec, input, dev_mode, dev_gpr, prog, obs>>
  \/ /\ \E g \in GprVals \ {dev_gpr} : dev_gpr' = g
     /\ UNCHANGED <<cfg, codec, input, dev_mode, dev_status, prog, obs>>

(* ---------------------------------------------------------- specification *)
\* Driver.__init__ / RetryingI2C.__init__: the handle is built, nothing has run.
NothingRun ==
  /\ op = None
  /\ pc = "idle"
  /\ i = 0
  /\ call = <<>>
  /\ tl = "idle"
  /\ retries = 0
  /\ tlret = PyNone
  /\ ret = PyNone
  /\ exc = 0
  /\ attempts = 0 /\ nfail = 0 /\ sleeps = 0
  /\ last_err = 0
  /\ wire = PyNone
  /\ log = <<>>
  /\ ncalls = 0
  /\ drv_sleeps = 0
  /\ failed = FALSE
  /\ first_zero = 0
  /\ first_status = -1
  /\ last_status = -1
  /\ xfers = <<>>
  /\ arg = <<>>
  /\ prev_mode = -1

Init ==
  /\ cfg_retries \in 0..MaxRetries
  /\ cfg_retry_sleep = <<1, 100>>
  /\ dev_mode \in ModeVals
  /\ dev_status \in StatusVals
  /\ dev_gpr \in GprVals
  /\ NothingRun
  /\ sbyte = 0 /\ sdec = <<>> /\ senc = -1 /\ sagain = <<>>

\* status.py on its own: every byte d, the handle built and idle.
StatusInit ==
  /\ cfg_retries = 0
  /\ cfg_retry_sleep = <<1, 100>>
  /\ dev_mode = DEEP_SLEEP
  /\ dev_status = 0
  /\ dev_gpr = <<5, 4, 6>>
  /\ NothingRun
  /\ sbyte \in 0..255 /\ sdec = <<>> /\ senc = -1 /\ sagain = <<>>

StatusNext == StatusNew \/ StatusToStatus \/ StatusAgain

StatusSpec == StatusInit /\ [][StatusNext]_vars

Transport == I2CWriteOk \/ I2CWriteFail \/ I2CReadOk \/ I2CReadFail

Driver ==
  \/ set_operating_mode \/ get_operating_mode \/ get_part_id
  \/ clear_gp_read_flag \/ get_fw_version
  \/ set_temp_compensation_kelvin \/ set_temp_compensation_celcius
  \/ set_temp_compensation_fahrenheit \/ set_rh_compensation
  \/ get_device_status \/ get_aqi \/ get_tvoc \/ get_eco2
  \/ reset \/ init

Next == Driver \/ Transport \/ DeviceChange

Spec == Init /\ [][Next]_vars

\* The program never stalls: the driver code runs on, and every transport
\* attempt either delivers or raises.
FairSpec == Spec /\ WF_vars(Driver) /\ WF_vars(Transport)

(* ------------------------------------------------------------- properties *)
Running == pc \notin {"idle", "done", "raised"}
ModeReads == Count("read", OP_MODE)
WriteReset == <<"write", OP_MODE, PyInt(RESET)>>
WriteIdle == <<"write", OP_MODE, PyInt(IDLE)>>
ReadMode == <<"read", OP_MODE, 1>>
ReadStatus == <<"read", DEVICE_STATUS, 1>>
ReadGpr == <<"read", GRP_READ4, 3>>
WriteGetFwVer == <<"write", COMMAND, PyInt(GET_FW_VER)>>

\* C1: a transaction-layer call whose transport has failed exactly R times
\* (R the retry budget) has not given up: it has slept R times and is making
\* attempt R + 1; when that attempt delivers, the call returns (a read: the
\* bytes of that attempt) after exactly R + 1 attempts and R sleeps.
C1_RetryThenSucceed ==
  (tl \in {"try", "ret", "raise"} /\ nfail = cfg_retries) =>
     /\ tl \in {"try", "ret"}
     /\ pc /= "raised" /\ exc = 0
     /\ sleeps = cfg_retries
     /\ tl = "try" => attempts = cfg_retries /\ retries = 0
     /\ tl = "ret" => /\ attempts = cfg_retries + 1
                      /\ Len(xfers) = cfg_retries + 1
                      /\ call[1] = "read" => tlret = wire

C1_Witness ==
  /\ tl = "ret" /\ call = ReadGpr /\ cfg_retries = MaxRetries
  /\ nfail = cfg_retries /\ sleeps = cfg_retries /\ tlret = PyList(<<5, 4, 6>>)

\* C2: a call whose transport fails R + 1 times raises that last error to the
\* caller of the driver operation after exactly R + 1 attempts and R sleeps;
\* no call ever makes more than R + 1 attempts or sleeps more than R times,
\* and nothing but R + 1 failures makes a call raise.
C2_ExhaustedRaises ==
  /\ tl /= "idle" => attempts <= cfg_retries + 1 /\ sleeps <= cfg_retries
  /\ (tl /= "idle" /\ nfail = cfg_retries + 1) =>
        /\ tl = "raise" /\ pc = "raised"
        /\ exc = last_err /\ exc \in Errnos
        /\ attempts = cfg_retries + 1
        /\ sleeps = cfg_retries
  /\ tl = "raise" => nfail = cfg_retries + 1

C2_Witness ==
  /\ tl = "raise" /\ call[1] = "write" /\ cfg_retries = MaxRetries
  /\ attempts = MaxRetries + 1 /\ sleeps = MaxRetries

\* C3: reset(), the operating-mode register reading nonzero every time and
\* the transport never failing, reads that register at most 25 times and then
\* returns False.
C3_ResetGivesUp ==
  (op = "reset" /\ ~failed /\ first_zero = 0 /\ LogComplete) =>
     /\ ModeReads <= ResetPolls
     /\ pc = "done" => ret = PyBool(FALSE) /\ ModeReads = ResetPolls

\* C4: every driver operation other than get_fw_version(), once started,
\* returns or raises.
C4_Terminates ==
  (Running /\ op /= "get_fw_version") ~> ~Running

\* C5: reset() writes RESET first; when poll k (1 <= k <= 25) is the first to
\* read 0, reset() makes no further operating-mode read, makes the one 3-byte
\* read of the general-purpose bank, and returns True after k polls and k - 1
\* sleeps.
C5_ResetSucceeds ==
  (op = "reset" /\ LogComplete) =>
     /\ log[1] = WriteReset
     /\ Count("write", OP_MODE) = 1
     /\ \A k \in 2..Len(log) : log[k][1] = "read"
     /\ first_zero \in 1..ResetPolls =>
          /\ ModeReads = first_zero
          /\ drv_sleeps = first_zero - 1
          /\ pc \in {"reset_poll", "reset_clear", "done", "raised"}
          /\ pc = "reset_poll" => tl \in {"ret"}
          /\ pc \in {"reset_clear", "done"} =>
                log = <<WriteReset>> \o [k \in 1..first_zero |-> ReadMode] \o <<ReadGpr>>
          /\ pc = "done" => ret = PyBool(TRUE)

C5_Witness ==
  /\ op = "reset" /\ pc = "done" /\ ret = PyBool(TRUE)
  /\ first_zero = ResetPolls /\ drv_sleeps = ResetPolls - 1 /\ Len(log) = ResetPolls + 2

\* C6: init() gets to its write of IDLE whatever reset() finds: once started
\* it raises a transport error or issues the IDLE write.
C6_InitWritesIdle ==
  (op = "init" /\ Running) ~> (pc = "raised" \/ (op = "init" /\ pc = "init_write"))

\* C7: get_fw_version(), the first status byte having bit 0 set, makes exactly
\* the calls write(COMMAND, GET_FW_VER), read(DEVICE_STATUS, 1),
\* read(GRP_READ4, 3), in this order, never sleeps, and returns the three
\* bytes as decimal numbers joined by dots.
C7_FwVersionImmediate ==
  (op = "get_fw_version" /\ first_status >= 0 /\ Bit(first_status, 0) = 1) =>
     /\ drv_sleeps = 0
     /\ ~failed => sleeps = 0
     /\ log \in {<<WriteGetFwVer, ReadStatus>>, <<WriteGetFwVer, ReadStatus, ReadGpr>>}
     /\ pc = "done" =>
          /\ log = <<WriteGetFwVer, ReadStatus, ReadGpr>>
          /\ wire = PyList(<<5, 4, 6>>) => ret = PyStr("5.4.6")
          /\ wire = PyList(<<0, 10, 255>>) => ret = PyStr("0.10.255")

C7_Witness ==
  /\ op = "get_fw_version" /\ pc = "done" /\ Bit(first_status, 0) = 1
  /\ ~failed /\ ret = PyStr("5.4.6")

\* C8: get_fw_version() reads the general-purpose bank and returns only after
\* a status read with bit 0 set; a status read with bit 0 clear is followed,
\* however many polls went before, by one sleep and another status read; and
\* when the status register comes to hold bit 0 for good, the operation ends
\* (by returning, unless a transport error ended it).
C8_Safe ==
  /\ (op = "get_fw_version" /\ pc \in {"fw_read", "done"}) =>
        /\ last_status >= 0 /\ Bit(last_status, 0) = 1
        /\ call = ReadGpr
  /\ (op = "get_fw_version" /\ pc = "raised") => failed

C8_Step ==
  (op = "get_fw_version" /\ pc = "fw_status" /\ tl = "ret" /\ Bit(tlret[2], 0) = 0) =>
     /\ pc' = "fw_status"
     /\ \/ tl' = "ret" /\ UNCHANGED <<call, log, drv_sleeps>>
        \/ /\ tl' = "try" /\ call' = ReadStatus
           /\ drv_sleeps' = IF drv_sleeps < MaxLog THEN drv_sleeps + 1 ELSE drv_sleeps

C8_FwVersionPolls ==
  /\ []C8_Safe
  /\ [][C8_Step]_vars
  /\ (<>[](Bit(dev_status, 0) = 1)) =>
        ((op = "get_fw_version" /\ Running) ~> ~(op = "get_fw_version" /\ Running))

C8_Witness ==
  /\ op = "get_fw_version" /\ pc = "done" /\ ~failed
  /\ drv_sleeps > ResetPolls

\* C9: a transport error that outlives the retries leaves the driver operation
\* as that same error: the operation returns no value (reset() no False), its
\* failed call is its last, no transport call follows, and inside init()'s
\* reset() no write of IDLE has been issued.
C9_ErrorAborts ==
  /\ (tl /= "idle" /\ nfail = cfg_retries + 1) => pc = "raised"
  /\ pc = "raised" =>
        /\ tl = "raise"
        /\ exc = last_err /\ exc \in Errnos
        /\ ret = PyNone
        /\ ~ENABLED Transport
        /\ LogComplete => log[Len(log)][1] = call[1] /\ log[Len(log)][2] = call[2]
        /\ (op = "init" /\ LogComplete /\ ~(call[1] = "write" /\ call[3] = PyInt(IDLE))) =>
              /\ Count("write", OP_MODE) = 1
              /\ log[1] = WriteReset

C9_Witness ==
  /\ op = "init" /\ pc = "raised" /\ call[1] = "read" /\ call[2] = GRP_READ4
  /\ exc = 121 /\ Len(log) > 3

\* C10: no transaction-layer call and no SMBus call ever writes
\* CLEAR_GPR_READ (0xCC) to the command register; clear_gp_read_flag() is the
\* single call read(GRP_READ4 = 0x4C, 3), also where reset() clears the flag.
IsClearCommand(c) ==
  /\ c[1] \in {"write", "write_byte_data", "write_i2c_block_data"}
  /\ c[2] = COMMAND
  /\ c[3] = PyInt(CLEAR_GPR_READ) \/ c[3] = PyList(<<CLEAR_GPR_READ>>)

C10_NoClearCommand ==
  /\ \A k \in 1..Len(log) : ~IsClearCommand(log[k])
  /\ \A k \in 1..Len(xfers) : ~IsClearCommand(xfers[k])
  /\ Len(call) = 3 => ~IsClearCommand(call)
  /\ (op = "clear_gp_read_flag" \/ pc = "reset_clear") =>
        /\ call[1] = "read" /\ call[2] = 76 /\ call[3] = 3
        /\ \A k \in 1..Len(xfers) : xfers[k][1] = "read_i2c_block_data"
  /\ op = "clear_gp_read_flag" => Len(log) = 1 /\ log[1][1] = "read"

C10_Witness ==
  /\ op = "clear_gp_read_flag" /\ pc = "done" /\ tlret = PyList(<<0, 10, 255>>)
  /\ Len(xfers) > 1

StatusBuilt == Len(sdec) = 1

\* C11: for every byte d, Status(d) has new_gpr = bit 0, new_data = bit 1,
\* flags = bits 2-3 (0..3), error = bit 6, power_on = bit 7, whatever bits 4
\* and 5 are; 0x83, 0x04 and 0x0C decode as the specification lists.
C11_StatusDecode ==
  StatusBuilt =>
    LET st == sdec[1] IN
    /\ st.new_gpr = (sbyte % 2 = 1)
    /\ st.new_data = ((sbyte \div 2) % 2 = 1)
    /\ st.flags = (sbyte \div 4) % 4 /\ st.flags \in 0..3
    /\ st.error = ((sbyte \div 64) % 2 = 1)
    /\ st.power_on = (sbyte >= 128)
    /\ \A hi \in 0..3 : Status((sbyte % 16) + 16 * hi + 64 * (sbyte \div 64)) = st
    /\ sbyte = 131 => /\ st.power_on /\ ~st.error /\ st.flags = 0
                      /\ st.normal_operation /\ st.new_data /\ st.new_gpr
    /\ sbyte = 4 => st.flags = 1 /\ st.warm_up
    /\ sbyte = 12 => st.flags = 3 /\ st.invalid_data

C11_Witness ==
  /\ StatusBuilt /\ sbyte = 131
  /\ sdec[1].power_on /\ ~sdec[1].error /\ sdec[1].new_gpr

\* C18: for every byte d, exactly one of normal_operation, warm_up,
\* inital_startup, invalid_data is true, the one bits 2-3 of d select
\* (0, 1, 2, 3 in this order).
C18_OneValidityFlag ==
  StatusBuilt =>
    LET st == sdec[1]
        sel == (sbyte \div 4) % 4
        set == <<st.normal_operation, st.warm_up, st.inital_startup, st.invalid_data>>
    IN /\ Cardinality({k \in 1..4 : set[k]}) = 1
       /\ set[sel + 1]

C18_Witness ==
  /\ StatusBuilt /\ sbyte = 8 + 128 + 1
  /\ sdec[1].inital_startup /\ ~sdec[1].normal_operation

\* C19: for every byte d, Status(d).to_status() is d with bits 4 and 5
\* cleared, and a Status built from that byte has the same fields.
C19_StatusRoundTrip ==
  /\ senc /= -1 =>
       /\ senc = sbyte - 16 * ((sbyte \div 16) % 2) - 32 * ((sbyte \div 32) % 2)
       /\ senc \in 0..255
  /\ Len(sagain) = 1 => sagain[1] = sdec[1]

C19_Witness ==
  /\ sbyte = 255 /\ senc = 207 /\ Len(sagain) = 1 /\ sagain[1].error

\* C12: get_part_id(), get_tvoc() and get_eco2() each make the single call
\* read(register, 2) on their own register (0x00, 0x22, 0x24), a block read
\* on the bus, and return byte0 + 256 * byte1 of the bytes delivered;
\* [0x60, 0x01] from the part-id register gives 0x0160.
WordRegister ==
  [get_part_id |-> 0, get_tvoc |-> 34, get_eco2 |-> 36]

C12_WordGetters ==
  op \in DOMAIN WordRegister =>
    /\ log = << <<"read", WordRegister[op], 2>> >>
    /\ ncalls = 1
    /\ \A k \in 1..Len(xfers) : xfers[k] = <<"read_i2c_block_data", WordRegister[op], 2, address>>
    /\ pc = "done" =>
         /\ wire[1] = "list" /\ ret[1] = "int"
         /\ ret[2] = wire[2][1] + 256 * wire[2][2]
         /\ ret[2] % 256 = wire[2][1] /\ ret[2] \div 256 = wire[2][2]
         /\ (op = "get_part_id" /\ wire = <<"list", <<96, 1>>>>) => ret = <<"int", 352>>

C12_Witness ==
  /\ op = "get_part_id" /\ pc = "done" /\ wire = <<"list", <<96, 1>>>> /\ ret = <<"int", 352>>

\* v is round(num / den): the nearest integer, the even one of two equally near.
IsRounded(v, num, den) ==
  LET twice == IF v * den >= num THEN 2 * (v * den - num) ELSE 2 * (num - v * den)
  IN twice <= den /\ (twice = den => v % 2 = 0)
Roundings(num, den) == {v \in {num \div den, num \div den + 1} : IsRounded(v, num, den)}

\* set_rh_compensation(p) has made the single call write(0x15, [lo, hi]) with
\* lo = v mod 256 and hi = v div 256, reduced mod 256 when `wrapped`, for
\* v = round(p * 512).
RhWritten(wrapped) ==
  op = "set_rh_compensation" =>
    /\ ncalls = 1 /\ Len(log) = 1
    /\ log[1][1] = "write" /\ log[1][2] = 21 /\ log[1][3][1] = "list"
    /\ \E v \in Roundings(arg[1] * 512, arg[2]) :
         log[1][3][2] = <<v % 256, IF wrapped THEN (v \div 256) % 256 ELSE v \div 256>>
    /\ arg = <<55, 1>> => log[1][3][2] = <<0, 110>>

\* C13 as claimed: the payload of set_rh_compensation(p) is
\* [v mod 256, v div 256] with v = round(p * 512).
C13_RhPayloadUnwrapped == RhWritten(FALSE)

\* C13, amended: set_rh_compensation(p) makes exactly one write to register
\* 0x15 with payload [v mod 256, (v div 256) mod 256], v = round(p * 512);
\* 55.0 gives [0x00, 0x6E].
C13_RhPayload == RhWritten(TRUE)

C13_Witness ==
  /\ op = "set_rh_compensation" /\ pc = "done" /\ arg = <<55, 1>>
  /\ call = <<"write", 21, <<"list", <<0, 110>>>>>>

\* The kelvin value, as a fraction, of the argument of the running Celsius or
\* Fahrenheit setter: c + 273.15, or (f - 32) * 5 / 9 + 273.15.
KelvinOfArg ==
  IF op = "set_temp_compensation_celcius"
  THEN <<20 * arg[1] + 5463 * arg[2], 20 * arg[2]>>
  ELSE <<100 * (arg[1] - 32 * arg[2]) + 49167 * arg[2], 180 * arg[2]>>

\* C14: the Celsius and the Fahrenheit setter each make exactly one call, a
\* write to register 0x13 of the two little-endian bytes of round(K * 64) for
\* the kelvin value K of their argument; 25.0 Celsius writes [0x8A, 0x4A].
C14_TempDelegates ==
  op \in {"set_temp_compensation_celcius", "set_temp_compensation_fahrenheit"} =>
    /\ ncalls = 1 /\ Len(log) = 1
    /\ log[1][1] = "write" /\ log[1][2] = 19 /\ log[1][3][1] = "list"
    /\ \E v \in Roundings(64 * KelvinOfArg[1], KelvinOfArg[2]) :
         log[1][3][2] = <<v % 256, (v \div 256) % 256>>
    /\ (op = "set_temp_compensation_celcius" /\ arg = <<25, 1>>) =>
         /\ 19082 \in Roundings(64 * KelvinOfArg[1], KelvinOfArg[2])
         /\ log[1][3][2] = <<138, 74>>
    /\ pc \in {"set_temp", "done", "raised"}

C14_Witness ==
  /\ op = "set_temp_compensation_celcius" /\ pc = "done" /\ arg = <<25, 1>>
  /\ call = <<"write", 19, <<"list", <<138, 74>>>>>>

\* C15: every attempt of one transaction-layer call is the same SMBus call:
\* the first attempt's primitive (single-byte for an int payload or a length
\* of 1, block otherwise), the handle's address, and the call's register and
\* payload or length; the attempts are the only transport operations of the
\* call, and a step inside the call either leaves them alone or adds one.
C15_Safe ==
  /\ Len(xfers) = attempts
  /\ \A k \in 1..Len(xfers) :
       /\ xfers[k] = xfers[1]
       /\ xfers[k][4] = 83
       /\ xfers[k][2] = call[2] /\ xfers[k][3] = call[3]
       /\ call[1] = "write" =>
            xfers[k][1] = IF call[3][1] = "int" THEN "write_byte_data"
                          ELSE "write_i2c_block_data"
       /\ call[1] = "read" =>
            xfers[k][1] = IF call[3] = 1 THEN "read_byte_data"
                          ELSE "read_i2c_block_data"

C15_Step ==
  (tl = "try" /\ tl' \in {"try", "ret", "raise"}) =>
     /\ call' = call
     /\ xfers' = xfers \/ (Len(xfers') = Len(xfers) + 1 /\ SubSeq(xfers', 1, Len(xfers)) = xfers)

C15_SameOperation == []C15_Safe /\ [][C15_Step]_vars

C15_Witness ==
  /\ tl = "ret" /\ Len(xfers) = 3 /\ nfail = 2
  /\ xfers[1] = <<"read_byte_data", 16, 1, 83>> /\ xfers[3] = xfers[1]

\* A finished get_operating_mode() or get_device_status() made its own read
\* and returns what that read delivered; a reset() that returned True read 0
\* in one of its own polls.
C16_Safe ==
  /\ (op = "get_operating_mode" /\ pc = "done") =>
        /\ log = << <<"read", 16, 1>> >> /\ attempts >= 1
        /\ ret = wire
  /\ (op = "get_device_status" /\ pc = "done") =>
        /\ log = << <<"read", 32, 1>> >> /\ attempts >= 1
        /\ ret = PyStatus(Status(wire[2]))
  /\ (op = "reset" /\ pc = "done") => (ret = PyBool(TRUE) /\ first_zero >= 1)

\* A read that succeeds delivers what the sensor holds at that step, and
\* reset() moves on from polling only on a 0 it has just read.
C16_Step ==
  /\ (tl = "try" /\ tl' = "ret" /\ call = <<"read", 16, 1>>) =>
        (tlret' = PyInt(dev_mode) /\ wire' = PyInt(dev_mode))
  /\ (tl = "try" /\ tl' = "ret" /\ call = <<"read", 32, 1>>) =>
        (tlret' = PyInt(dev_status) /\ wire' = PyInt(dev_status))
  /\ (op = "reset" /\ pc = "reset_poll" /\ pc' = "reset_clear") =>
        (tl = "ret" /\ call = <<"read", 16, 1>> /\ tlret = PyInt(0))

\* C16: get_operating_mode() and get_device_status() each make a fresh read
\* and return the value the sensor held at that read, whatever an earlier call
\* returned; reset() decides success only from its own polls.
C16_NoLocalState == []C16_Safe /\ [][C16_Step]_vars

\* A second get_operating_mode() in a row returns 0 after the first returned
\* 0xF0: the sensor changed mode in between.
C16_Witness ==
  /\ op = "get_operating_mode" /\ pc = "done"
  /\ prev_mode = 240 /\ ret = PyInt(0) /\ dev_mode = 0

\* Inside a call the budget left is the configured one less this call's own
\* failures, whatever failed earlier in the operation.
C17_Safe ==
  /\ tl = "try" => (retries = cfg_retries - nfail /\ nfail <= cfg_retries)
  /\ (tl = "try" /\ attempts = 0) => retries = cfg_retries
  /\ tl = "ret" => nfail <= cfg_retries

\* No step changes the configured count or delay, and a step that starts a
\* call starts it with the configured count.
C17_Step ==
  /\ cfg_retries' = cfg_retries /\ cfg_retry_sleep' = cfg_retry_sleep
  /\ (tl /= "try" /\ tl' = "try") => (retries' = cfg_retries /\ nfail' = 0)

\* C17: every transaction-layer call starts with the full configured budget
\* whatever failures earlier calls suffered, and no call changes the
\* configured retry count or delay; each call of reset() tolerates up to that
\* many failures on its own.
C17_BudgetPerCall == []C17_Safe /\ [][C17_Step]_vars

\* reset() starts its third call with the full budget after failures in its
\* earlier calls.
C17_Witness ==
  /\ op = "reset" /\ ncalls = 3 /\ failed
  /\ tl = "try" /\ attempts = 0 /\ nfail = 0
  /\ cfg_retries = MaxRetries /\ retries = MaxRetries

Setters ==
  {"set_temp_compensation_kelvin", "set_temp_compensation_celcius",
   "set_temp_compensation_fahrenheit", "set_rh_compensation"}

\* The values round() can give for the scaled argument of the running setter.
ScaledArg ==
  IF op = "set_rh_compensation" THEN Roundings(512 * arg[1], arg[2])
  ELSE IF op = "set_temp_compensation_kelvin" THEN Roundings(64 * arg[1], arg[2])
  ELSE Roundings(64 * KelvinOfArg[1], KelvinOfArg[2])

\* C20: a compensation setter always writes exactly two values, each in
\* 0..255, that are the scaled integer v reduced modulo 2^16, low byte first;
\* whatever the argument it makes the write, and only a transport failure
\* makes it raise.
C20_PayloadWraps ==
  op \in Setters =>
    /\ Len(log) = 1 /\ log[1][1] = "write" /\ log[1][3][1] = "list"
    /\ Len(log[1][3][2]) = 2
    /\ \A k \in 1..2 : log[1][3][2][k] \in 0..255
    /\ \E v \in ScaledArg : log[1][3][2][1] + 256 * log[1][3][2][2] = v % 65536
    /\ call = log[1]
    /\ pc = "raised" => (failed /\ tl = "raise" /\ nfail = cfg_retries + 1)
    /\ (pc = "done" /\ ~failed) => xfers = << <<"write_i2c_block_data", call[2], call[3], address>> >>

\* 128 percent scales to 65536 and is written as [0, 0].
C20_Witness ==
  /\ op = "set_rh_compensation" /\ pc = "done" /\ arg = <<128, 1>>
  /\ call[3] = <<"list", <<0, 0>>>>

====
